---------------------------- MODULE Spec2Model ----------------------------
(***************************************************************************)
(* State-machine model of the CDP wallet subscription demo:                *)
(*   - the three backend request handlers (create-wallet,                  *)
(*     charge-subscription, revoke-subscription),                          *)
(*   - the client-side SubscriptionManager component (React state,         *)
(*     localStorage, its async handlers and timers),                       *)
(*   - the external wallet/subscription platform the code calls.           *)
(*                                                                         *)
(* JavaScript values: a string is a TLA+ string, an object is a function   *)
(* from field names to values (a field that is undefined is not in the     *)
(* DOMAIN, which is also what JSON serialisation makes of it), null is     *)
(* JsNull and the undefined value of a read of a missing field is          *)
(* Undefined.                                                              *)
(***************************************************************************)
EXTENDS Integers, Sequences, FiniteSets, Bags, TLC

VARIABLES
    \* ---- SubscriptionManager (React state of the mounted component)
    wallet,              \* useState<WalletInfo | null>
    subscription,        \* useState<SubscriptionInfo | null>
    subscriptionStatus,  \* useState<SubscriptionStatus | null>
    loading,             \* useState<Record<string, boolean>>
    error,               \* useState<string | ErrorInfo | null>
    success,             \* useState<string | null>
    subscriptionAmount,  \* useState<string>('29.99')
    chargeAmount,        \* useState<string>('1.00')
    recipientAddress,    \* useState<string>('')
    \* ---- the browser
    storage,             \* localStorage: the two records
    tasks,               \* bag of async continuations: requests in flight, timers
    session,             \* history of this page load (not read by the code)
    \* ---- the external platform
    platWallets,         \* wallet name -> address
    platSubs,            \* subscription id -> platform record
    \* ---- the backend
    hlast,               \* the last direct handler invocation and its response
    returned,            \* addresses the wallet handler has answered with
    env                  \* process.env of the server process

uiVars == <<wallet, subscription, subscriptionStatus, loading, error, success,
            subscriptionAmount, chargeAmount, recipientAddress, storage, tasks, session>>
vars == <<wallet, subscription, subscriptionStatus, loading, error, success,
          subscriptionAmount, chargeAmount, recipientAddress, storage, tasks, session,
          platWallets, platSubs, hlast, returned, env>>

---------------------------------------------------------------------------
\* JavaScript values

Undefined == "<undefined>"
JsNull == [jsnull |-> TRUE]
EmptyObject == [k \in {} |-> ""]

\* obj.k of an object: undefined when the field is missing
Field(obj, k) == IF k \in DOMAIN obj THEN obj[k] ELSE Undefined

FalsyOnlyUndefined(v) == v = Undefined

\* !v for a string-or-undefined value
Falsy(v) == v = Undefined \/ v = ""

\* a || b
OrElse(a, b) == IF Falsy(a) THEN b ELSE a

\* { k: v } as JSON serialisation keeps it: nothing when v is undefined
Opt(k, v) == IF v = Undefined THEN EmptyObject ELSE [x \in {k} |-> v]

\* JSON text: a parseable text is the value it denotes, any other text is malformed
JSONstringify(v) == [kind |-> "json", value |-> v]
MalformedText == [kind |-> "malformed"]
JSONparse(text) ==
    IF text.kind = "json"
    THEN [threw |-> FALSE, value |-> text.value]
    ELSE [threw |-> TRUE, message |-> "Unexpected token in JSON"]

---------------------------------------------------------------------------
\* Bounds of the model

\* the largest amount, in cents, the platform's accounts are kept in
MaxCents == 2999
\* charges the platform accepts on one subscription within the period
MaxCharges == 1
\* actions of the user on the page: clicks, edits of an input, reloads
MaxClicks == 3

---------------------------------------------------------------------------
\* The external platform (the SDK's contract, as the code calls it)

\* decimal strings with two places, as the platform reads and prints amounts
TwoDigits(n) == IF n < 10 THEN "0" \o ToString(n) ELSE ToString(n)
FormatCents(c) == ToString(c \div 100) \o "." \o TwoDigits(c % 100)
NotANumber == 0 - 1
DecimalOf == [c \in 0..MaxCents |-> FormatCents(c)]
CentsOf == [s \in {DecimalOf[c] : c \in 0..MaxCents} |->
              CHOOSE c \in 0..MaxCents : DecimalOf[c] = s]
ParseCents(s) == IF s \in DOMAIN CentsOf THEN CentsOf[s] ELSE NotANumber

WalletNames == {"bbq-sub-v1", "bbq-sub-v2"}
Addresses == {"0xA1", "0xA2"}
SubIdOrder == <<"sub-1", "sub-2">>
SubIds == {SubIdOrder[n] : n \in DOMAIN SubIdOrder}
NoWallet == "<none>"
NoSub == [exists |-> FALSE]

\* messages of the errors the platform throws; "" is an error without a message
WalletErrors == {"Invalid API key", ""}
ChargeErrors == {"Insufficient Gas", "execution reverted", ""}
RevokeErrors == {"execution reverted", ""}
StatusErrors == {"Failed to fetch"}
SubscribeErrors == {"User rejected the request"}
Threw(m, st) == [threw |-> TRUE, message |-> m, state |-> st]
Returned(r, st) == [threw |-> FALSE, result |-> r, state |-> st]

\* base.subscription.getOrCreateSubscriptionOwnerWallet(opts): the wallet of that
\* name, created with a fresh address when there is none
PlatformGetOrCreateWallet(opts, wallets) ==
    {Threw(m, wallets) : m \in WalletErrors}
    \cup
    (IF wallets[opts.walletName] # NoWallet
     THEN {Returned([address |-> wallets[opts.walletName],
                     walletName |-> opts.walletName], wallets)}
     ELSE {Returned([address |-> a, walletName |-> opts.walletName],
                    [wallets EXCEPT ![opts.walletName] = a])
             : a \in {b \in Addresses : \A n \in WalletNames : wallets[n] # b}})

\* base.subscription.charge(opts): takes the amount from what remains of the period
PlatformCharge(opts, subs) ==
    {Threw(m, subs) : m \in ChargeErrors}
    \cup
    (IF /\ opts.id \in SubIds
        /\ subs[opts.id].exists
        /\ ~subs[opts.id].revoked
        /\ Len(subs[opts.id].charges) < MaxCharges
        /\ ParseCents(opts.amount) > 0
        /\ ParseCents(opts.amount) <= subs[opts.id].remaining
     THEN {Returned([id |-> "0xtx", amount |-> opts.amount,
                     subscriptionOwner |-> subs[opts.id].owner,
                     subscriptionId |-> opts.id]
                    @@ Opt("recipient", Field(opts, "recipient")),
                    [subs EXCEPT ![opts.id].remaining = @ - ParseCents(opts.amount),
                                 ![opts.id].charges = Append(@, opts.amount)])}
     ELSE {})

\* base.subscription.revoke(opts)
PlatformRevoke(opts, subs) ==
    {Threw(m, subs) : m \in RevokeErrors}
    \cup
    (IF opts.id \in SubIds /\ subs[opts.id].exists
     THEN {Returned("0xrevoke", [subs EXCEPT ![opts.id].revoked = TRUE])}
     ELSE {})

\* base.subscription.getStatus(opts)
PlatformGetStatus(opts, subs) ==
    {Threw(m, subs) : m \in StatusErrors}
    \cup
    (IF Field(opts, "id") \in SubIds /\ subs[opts.id].exists
     THEN {Returned([isSubscribed |-> ~subs[opts.id].revoked,
                     remainingChargeInPeriod |-> FormatCents(subs[opts.id].remaining),
                     subscriptionOwner |-> subs[opts.id].owner], subs)}
     ELSE {})

\* base.subscription.subscribe(opts): a new subscription under an unused id
PlatformSubscribe(opts, subs) ==
    {Threw(m, subs) : m \in SubscribeErrors}
    \cup
    (IF ParseCents(opts.recurringCharge) > 0 /\ opts.subscriptionOwner # Undefined
     THEN {Returned([id |-> i, subscriptionPayer |-> "0xPayer",
                     recurringCharge |-> opts.recurringCharge,
                     periodInDays |-> opts.periodInDays],
                    [subs EXCEPT ![i] = [exists |-> TRUE, revoked |-> FALSE,
                                         owner |-> opts.subscriptionOwner, charges |-> <<>>,
                                         remaining |-> ParseCents(opts.recurringCharge)]])
             : i \in {SubIdOrder[n] : n \in
                        {m \in DOMAIN SubIdOrder :
                            /\ ~subs[SubIdOrder[m]].exists
                            /\ \A k \in 1..(m - 1) : subs[SubIdOrder[k]].exists}}}
     ELSE {})

---------------------------------------------------------------------------
\* The backend handlers

\* const WALLET_NAME = 'bbq-sub-v1'
WALLET_NAME == "bbq-sub-v1"

\* process.env: the three values the server process was started with
Environments ==
    {[CDP_API_KEY_ID |-> "key-id", CDP_API_KEY_SECRET |-> "key-secret",
      CDP_WALLET_SECRET |-> "wallet-secret"],
     [CDP_API_KEY_ID |-> "key-id-2", CDP_API_KEY_SECRET |-> "key-secret-2",
      CDP_WALLET_SECRET |-> "wallet-secret-2"]}
Deployed(e) == e \in Environments /\ e.CDP_API_KEY_ID = "key-id"
ProcessEnv == env
Credentials == [cdpApiKeyId |-> ProcessEnv.CDP_API_KEY_ID,
                cdpApiKeySecret |-> ProcessEnv.CDP_API_KEY_SECRET,
                cdpWalletSecret |-> ProcessEnv.CDP_WALLET_SECRET]

\* NextResponse.json(body, { status })
Response(status, body) == [status |-> status, body |-> body]
\* response.ok
Ok(resp) == resp.status >= 200 /\ resp.status <= 299

\* what a handler invocation comes to: its response, the platform calls it made
\* in order (each with what the platform answered), the platform's state after it
Handled(resp, calls, st) == [resp |-> resp, calls |-> calls, state |-> st]
Answer(o) == IF o.threw THEN [threw |-> TRUE, message |-> o.message]
             ELSE [threw |-> FALSE, result |-> o.result]
Call(op, opts, o) == [op |-> op, opts |-> opts, answer |-> Answer(o)]

\* await request.json()
RequestJson(req) == JSONparse(req.body)
DestructureNull == "Cannot destructure property 'subscriptionId' of null"

ChargeCatchGeneric(message) ==
    Response(500, [success |-> FALSE, error |-> "Failed to charge subscription"])

\* the catch block of the charge handler
ChargeCatch(message) ==
    Response(500, [success |-> FALSE,
                   error |-> OrElse(message, "Failed to charge subscription")])

\* if (!subscriptionId) return NextResponse.json({ error }, { status: 400 })
MissingSubscriptionId == Response(400, [error |-> "Missing subscriptionId"])

DefaultedAmountNullish(amount) == IF amount = Undefined THEN "1.00" ELSE amount

\* const chargeAmount = amount || '1.00'
DefaultedAmount(amount) == OrElse(amount, "1.00")

ChargeOptionsMainnet(subscriptionId, amount, recipient) ==
    ([id |-> subscriptionId, amount |-> DefaultedAmount(amount), testnet |-> FALSE,
      walletName |-> WALLET_NAME] @@ Credentials)
    @@ (IF Falsy(recipient) THEN EmptyObject ELSE [recipient |-> recipient])

\* chargeOptions, with the recipient when one is given
ChargeOptions(subscriptionId, amount, recipient) ==
    ([id |-> subscriptionId, amount |-> DefaultedAmount(amount), testnet |-> TRUE,
      walletName |-> WALLET_NAME] @@ Credentials)
    @@ (IF Falsy(recipient) THEN EmptyObject ELSE [recipient |-> recipient])

\* the success response of the charge handler
ChargeSuccess(chargeResult) ==
    Response(200,
      [success |-> TRUE,
       transactionHash |-> chargeResult.id,
       amount |-> chargeResult.amount,
       subscriptionOwner |-> chargeResult.subscriptionOwner,
       message |-> "Successfully charged $" \o chargeResult.amount \o " USDC",
       subscriptionId |-> chargeResult.subscriptionId]
      @@ (IF Falsy(Field(chargeResult, "recipient")) THEN EmptyObject
          ELSE [recipient |-> chargeResult.recipient]))

\* POST of app/API/charge-subscription/route.ts
ChargePOST(req, subs) ==
    LET parsed == RequestJson(req) IN
    IF parsed.threw THEN {Handled(ChargeCatch(parsed.message), <<>>, subs)}
    ELSE IF parsed.value = JsNull
    THEN {Handled(ChargeCatch(DestructureNull), <<>>, subs)}
    ELSE
    LET subscriptionId == Field(parsed.value, "subscriptionId")
        amount == Field(parsed.value, "amount")
        recipient == Field(parsed.value, "recipient")
    IN  IF Falsy(subscriptionId)
        THEN {Handled(MissingSubscriptionId, <<>>, subs)}
        ELSE
        LET chargeOptions == ChargeOptions(subscriptionId, amount, recipient) IN
        {Handled(IF o.threw THEN ChargeCatch(o.message) ELSE ChargeSuccess(o.result),
                 <<Call("charge", chargeOptions, o)>>, o.state)
           : o \in PlatformCharge(chargeOptions, subs)}

RevokeCatchNamesKey(message) ==
    Response(500, [success |-> FALSE,
                   error |-> OrElse(message, "Failed to revoke subscription")
                               \o " (" \o Credentials.cdpApiKeyId \o ")"])

\* the catch block of the revoke handler
RevokeCatch(message) ==
    Response(500, [success |-> FALSE,
                   error |-> OrElse(message, "Failed to revoke subscription")])

RevokeOptions(subscriptionId) ==
    [id |-> subscriptionId, testnet |-> TRUE, walletName |-> WALLET_NAME] @@ Credentials

RevokeSuccessNoResult(subscriptionId, revokeResult) ==
    Response(200, [success |-> TRUE,
                   subscriptionId |-> subscriptionId,
                   message |-> "Subscription revoked successfully"])

\* the success response of the revoke handler
RevokeSuccess(subscriptionId, revokeResult) ==
    Response(200, [success |-> TRUE,
                   subscriptionId |-> subscriptionId,
                   message |-> "Subscription revoked successfully",
                   revokeResult |-> revokeResult])

\* POST of app/API/revoke-subscription/route.ts
RevokePOST(req, subs) ==
    LET parsed == RequestJson(req) IN
    IF parsed.threw THEN {Handled(RevokeCatch(parsed.message), <<>>, subs)}
    ELSE IF parsed.value = JsNull
    THEN {Handled(RevokeCatch(DestructureNull), <<>>, subs)}
    ELSE
    LET subscriptionId == Field(parsed.value, "subscriptionId") IN
    IF Falsy(subscriptionId)
    THEN {Handled(MissingSubscriptionId, <<>>, subs)}
    ELSE
    {Handled(IF o.threw THEN RevokeCatch(o.message)
             ELSE RevokeSuccess(subscriptionId, o.result),
             <<Call("revoke", RevokeOptions(subscriptionId), o)>>, o.state)
       : o \in PlatformRevoke(RevokeOptions(subscriptionId), subs)}

CreateWalletOptionsNewName ==
    Credentials @@ [walletName |-> IF platWallets[WALLET_NAME] = NoWallet
                                   THEN WALLET_NAME ELSE "bbq-sub-v2"]

\* the options of getOrCreateSubscriptionOwnerWallet: the fixed name
CreateWalletOptions == Credentials @@ [walletName |-> WALLET_NAME]

\* POST of app/API/create-wallet/route.ts
CreateWalletPOST(wallets) ==
    {Handled(IF o.threw
             THEN Response(500, [error |->
                     OrElse(o.message, "Failed to create/retrieve wallet")])
             ELSE Response(200,
                    [address |-> o.result.address,
                     walletName |-> o.result.walletName,
                     message |-> "CDP smart wallet ready for subscription management"]),
             <<Call("getOrCreateSubscriptionOwnerWallet", CreateWalletOptions, o)>>,
             o.state)
       : o \in PlatformGetOrCreateWallet(CreateWalletOptions, wallets)}

---------------------------------------------------------------------------
\* The component before anything is mounted, and the idle browser

NoFlags == [k \in {"wallet", "subscription", "status", "charge", "revoke"} |-> FALSE]
NoItem == [kind |-> "none"]
NoHistory == [restored |-> FALSE, autoFetches |-> 0, clicks |-> 0,
              last |-> [action |-> "Mount"]]
NoInvocation == [handler |-> "none"]

Unmounted ==
    /\ wallet = JsNull
    /\ subscription = JsNull
    /\ subscriptionStatus = JsNull
    /\ loading = NoFlags
    /\ error = JsNull
    /\ success = JsNull
    /\ subscriptionAmount = "29.99"
    /\ chargeAmount = "1.00"
    /\ recipientAddress = ""
    /\ storage = [w \in {"bbq-wallet", "bbq-subscription"} |-> NoItem]
    /\ tasks = EmptyBag
    /\ session = NoHistory

---------------------------------------------------------------------------
\* The handlers under direct requests: any client may post any body

\* successful wallet responses kept for comparison
MaxReturned == 3

BodyIds == {Undefined, "", "sub-1", "sub-2"}
BodyAmounts == {Undefined, "", "1.00", "2.50"}
BodyRecipients == {Undefined, "", "0xR"}
ChargeBodies ==
    {(Opt("subscriptionId", i) @@ Opt("amount", a)) @@ Opt("recipient", r)
       : i \in BodyIds, a \in BodyAmounts, r \in BodyRecipients}
RevokeBodies == {Opt("subscriptionId", i) : i \in BodyIds}
Requests(bodies) ==
    {[body |-> MalformedText], [body |-> JSONstringify(JsNull)]}
    \cup {[body |-> JSONstringify(b)] : b \in bodies}

Invocation(handler, req, h) ==
    [handler |-> handler, req |-> req, resp |-> h.resp, calls |-> h.calls]

InitHandlers ==
    /\ Unmounted
    /\ platWallets = [n \in WalletNames |-> NoWallet]
    /\ platSubs = [i \in SubIds |->
                     IF i = "sub-1"
                     THEN [exists |-> TRUE, revoked |-> FALSE, owner |-> "0xA1",
                           charges |-> <<>>, remaining |-> 250]
                     ELSE NoSub]
    /\ hlast = NoInvocation
    /\ returned = <<>>
    /\ Deployed(env)

PostCharge ==
    \E req \in Requests(ChargeBodies) : \E h \in ChargePOST(req, platSubs) :
        /\ hlast' = Invocation("charge", req, h)
        /\ platSubs' = h.state
        /\ UNCHANGED <<uiVars, platWallets, returned, env>>

PostRevoke ==
    \E req \in Requests(RevokeBodies) : \E h \in RevokePOST(req, platSubs) :
        /\ hlast' = Invocation("revoke", req, h)
        /\ platSubs' = h.state
        /\ UNCHANGED <<uiVars, platWallets, returned, env>>

PostCreateWallet ==
    /\ Len(returned) < MaxReturned
    /\ \E h \in CreateWalletPOST(platWallets) :
        /\ hlast' = Invocation("create-wallet", [body |-> MalformedText], h)
        /\ platWallets' = h.state
        /\ returned' = IF Ok(h.resp) THEN Append(returned, h.resp.body.address)
                       ELSE returned
        /\ UNCHANGED <<uiVars, platSubs, env>>

NextHandlers == PostCharge \/ PostRevoke \/ PostCreateWallet

SpecHandlers == InitHandlers /\ [][NextHandlers]_vars

\* a value that is missing or the empty string
MissingOrEmpty(v) == v \in {Undefined, ""}

\* the body of the last request, when it parsed to an object
LastBodyIsObject ==
    /\ hlast.handler \in {"charge", "revoke"}
    /\ hlast.req.body.kind = "json"
    /\ hlast.req.body.value # JsNull
LastBody == hlast.req.body.value

---------------------------------------------------------------------------
\* C1: a charge or revoke request whose parsed body has a missing or empty
\* subscriptionId is answered with status 400 and a body with an error field,
\* and the platform is not called for it.
C1_MissingIdIsClientError ==
    (LastBodyIsObject /\ MissingOrEmpty(Field(LastBody, "subscriptionId")))
    => /\ hlast.resp.status = 400
       /\ "error" \in DOMAIN hlast.resp.body
       /\ hlast.calls = <<>>

C1_Witness ==
    /\ LastBodyIsObject
    /\ hlast.handler = "revoke"
    /\ Field(LastBody, "subscriptionId") = ""
    /\ hlast.resp.status = 400

---------------------------------------------------------------------------
\* C2 as stated: for a charge request with a non-empty subscriptionId, the amount
\* passed to the platform is the request's amount when one is given and "1.00"
\* when it is omitted.
C2_AmountAsGivenOrDefault ==
    (LastBodyIsObject /\ hlast.handler = "charge"
       /\ ~MissingOrEmpty(Field(LastBody, "subscriptionId")))
    => /\ Len(hlast.calls) = 1
       /\ hlast.calls[1].opts.amount =
            (IF "amount" \in DOMAIN LastBody THEN LastBody.amount ELSE "1.00")

\* C2 amended: the amount passed to the platform is the request's amount when a
\* non-empty amount is given, and "1.00" when the amount is omitted or empty.
C2_AmountNonEmptyOrDefault ==
    (LastBodyIsObject /\ hlast.handler = "charge"
       /\ ~MissingOrEmpty(Field(LastBody, "subscriptionId")))
    => /\ Len(hlast.calls) = 1
       /\ hlast.calls[1].op = "charge"
       /\ hlast.calls[1].opts.amount =
            (IF "amount" \in DOMAIN LastBody /\ LastBody.amount # ""
             THEN LastBody.amount ELSE "1.00")

C2_Witness ==
    /\ LastBodyIsObject /\ hlast.handler = "charge"
    /\ Field(LastBody, "subscriptionId") = "sub-1"
    /\ "amount" \notin DOMAIN LastBody
    /\ hlast.calls[1].opts.amount = "1.00"
    /\ ~hlast.calls[1].answer.threw

---------------------------------------------------------------------------
\* C8: for a revoke request with a non-empty subscriptionId the platform's revoke
\* is called exactly once, with that id; when it returns without error the
\* response has success true, the request's subscriptionId and the platform's
\* raw result.
C8_RevokeEchoesIdAndResult ==
    (LastBodyIsObject /\ hlast.handler = "revoke"
       /\ ~MissingOrEmpty(Field(LastBody, "subscriptionId")))
    => /\ Len(hlast.calls) = 1
       /\ hlast.calls[1].op = "revoke"
       /\ hlast.calls[1].opts.id = LastBody.subscriptionId
       /\ ~hlast.calls[1].answer.threw
            => /\ Ok(hlast.resp)
               /\ hlast.resp.body.success = TRUE
               /\ Field(hlast.resp.body, "subscriptionId") = LastBody.subscriptionId
               /\ Field(hlast.resp.body, "revokeResult") = hlast.calls[1].answer.result

C8_Witness ==
    /\ LastBodyIsObject /\ hlast.handler = "revoke"
    /\ Field(LastBody, "subscriptionId") = "sub-1"
    /\ ~hlast.calls[1].answer.threw
    /\ hlast.resp.body.subscriptionId = "sub-1"

---------------------------------------------------------------------------
\* C9: every successful response of the wallet handler carries the same address,
\* and the handler asks the platform for the same fixed wallet name on every call.
C9_SameWalletEveryTime ==
    /\ \A i, j \in 1..Len(returned) : returned[i] = returned[j]
    /\ hlast.handler = "create-wallet"
         => /\ Len(hlast.calls) = 1
            /\ hlast.calls[1].opts.walletName = WALLET_NAME

C9_Witness ==
    /\ Len(returned) >= 2
    /\ hlast.handler = "create-wallet"
    /\ Ok(hlast.resp)

---------------------------------------------------------------------------
\* The SubscriptionManager component

\* the React state, the storage and the pending work as one value
UI == [wallet |-> wallet, subscription |-> subscription,
       subscriptionStatus |-> subscriptionStatus, loading |-> loading,
       error |-> error, success |-> success,
       subscriptionAmount |-> subscriptionAmount, chargeAmount |-> chargeAmount,
       recipientAddress |-> recipientAddress, storage |-> storage,
       tasks |-> tasks, session |-> session]

\* a string held where the state may also hold an object or null
Str(s) == [string |-> s]

\* the state of a first render: every useState at its initial value
FirstRender(store) ==
    [wallet |-> JsNull, subscription |-> JsNull, subscriptionStatus |-> JsNull,
     loading |-> NoFlags, error |-> JsNull, success |-> JsNull,
     subscriptionAmount |-> "29.99", chargeAmount |-> "1.00",
     recipientAddress |-> "", storage |-> store, tasks |-> EmptyBag,
     session |-> NoHistory]

Add(u, t) == [u EXCEPT !.tasks = @ (+) SetToBag({t})]
Remove(u, t) == [u EXCEPT !.tasks = @ (-) SetToBag({t})]
Pending(kind, phase) ==
    {t \in BagToSet(tasks) : t.kind = kind /\ t.phase = phase}

\* setLoading({ ...loading, [key]: value }) with the loading of the closure
SpreadLoading(L, key, value) == [L EXCEPT ![key] = value]

\* useEffect(load from localStorage): restore the two records
LoadFromStorage(u) ==
    LET storedWallet == u.storage["bbq-wallet"]
        storedSubscription == u.storage["bbq-subscription"]
        u1 == IF storedWallet = NoItem THEN u
              ELSE IF JSONparse(storedWallet).threw
              THEN [u EXCEPT !.storage["bbq-wallet"] = NoItem]
              ELSE [u EXCEPT !.wallet = JSONparse(storedWallet).value]
        u2 == IF storedSubscription = NoItem THEN u1
              ELSE IF JSONparse(storedSubscription).threw THEN u1
              ELSE [u1 EXCEPT !.subscription = JSONparse(storedSubscription).value,
                              !.session.restored = TRUE]
    IN  u2

EffectRunsEveryRender(before, after) == TRUE

\* the dependency array [subscription?.id] of the checkStatus effect
EffectDepsChanged(before, after) ==
    Field(before.subscription, "id") # Field(after.subscription, "id")

\* useEffect(checkStatus): the automatic status fetch, with functional
\* setLoading(prev => ...)
checkStatus(u) ==
    IF u.subscription # JsNull /\ u.subscriptionStatus = JsNull /\ ~u.loading["status"]
    THEN Add([u EXCEPT !.loading["status"] = TRUE, !.error = JsNull,
                       !.session.autoFetches = @ + 1],
             [kind |-> "status", phase |-> "sent", origin |-> "effect",
              opts |-> Opt("id", Field(u.subscription, "id")) @@ [testnet |-> TRUE]])
    ELSE u

\* a render is committed: the effects whose dependencies changed run
Rendered(before, after) ==
    IF EffectDepsChanged(before, after) THEN checkStatus(after) ELSE after

\* the next state of the component
Commit(before, after) ==
    LET u == Rendered(before, after) IN
    /\ wallet' = u.wallet
    /\ subscription' = u.subscription
    /\ subscriptionStatus' = u.subscriptionStatus
    /\ loading' = u.loading
    /\ error' = u.error
    /\ success' = u.success
    /\ subscriptionAmount' = u.subscriptionAmount
    /\ chargeAmount' = u.chargeAmount
    /\ recipientAddress' = u.recipientAddress
    /\ storage' = u.storage
    /\ tasks' = u.tasks
    /\ session' = u.session

\* the page is mounted: first render, then the effects
Mounted(store) == Rendered(FirstRender(store), LoadFromStorage(FirstRender(store)))

\* ---- Create Wallet

\* handleCreateWallet up to its await
handleCreateWallet(u) ==
    Add([u EXCEPT !.loading = SpreadLoading(u.loading, "wallet", TRUE),
                  !.error = JsNull, !.success = JsNull],
        [kind |-> "wallet", phase |-> "sent", L |-> u.loading])

CreateWalletResolvedUnstored(u, t, resp) ==
    LET u1 == IF ~Ok(resp)
              THEN [u EXCEPT !.error = Str("Failed to create wallet")]
              ELSE [u EXCEPT !.wallet = resp.body,
                             !.success = Str("Wallet created successfully!")]
    IN  Remove([u1 EXCEPT !.loading = SpreadLoading(t.L, "wallet", FALSE)], t)

CreateWalletResolvedResets(u, t, resp) ==
    LET u1 == IF ~Ok(resp)
              THEN [u EXCEPT !.error = Str("Failed to create wallet"),
                             !.wallet = JsNull]
              ELSE [u EXCEPT !.wallet = resp.body,
                             !.storage["bbq-wallet"] = JSONstringify(resp.body),
                             !.success = Str("Wallet created successfully!")]
    IN  Remove([u1 EXCEPT !.loading = SpreadLoading(t.L, "wallet", FALSE)], t)

\* handleCreateWallet from the response on
CreateWalletResolved(u, t, resp) ==
    LET u1 == IF ~Ok(resp)
              THEN [u EXCEPT !.error = Str("Failed to create wallet")]
              ELSE [u EXCEPT !.wallet = resp.body,
                             !.storage["bbq-wallet"] = JSONstringify(resp.body),
                             !.success = Str("Wallet created successfully!")]
    IN  Remove([u1 EXCEPT !.loading = SpreadLoading(t.L, "wallet", FALSE)], t)

\* ---- Get Status

\* handleGetStatus(subscriptionId) up to its await, run with the state its
\* closure holds: the loading L and the subscription id subId
handleGetStatus(u, subscriptionId, L, subId, origin) ==
    LET id == OrElse(subscriptionId, subId) IN
    IF Falsy(id)
    THEN [u EXCEPT !.error = Str("No subscription created yet")]
    ELSE Add([u EXCEPT !.loading = SpreadLoading(L, "status", TRUE), !.error = JsNull],
             [kind |-> "status", phase |-> "sent", origin |-> origin,
              opts |-> [id |-> id, testnet |-> TRUE], L |-> L])

StatusOutcomeKeepsCached(u, answer) ==
    IF answer.threw
    THEN [u EXCEPT !.error = Str(OrElse(answer.message,
                                        "Failed to get subscription status"))]
    ELSE IF u.subscriptionStatus = JsNull
    THEN [u EXCEPT !.subscriptionStatus = answer.result]
    ELSE u

StatusOutcomeResets(u, answer) ==
    IF answer.threw
    THEN [u EXCEPT !.error = Str(OrElse(answer.message,
                                        "Failed to get subscription status")),
                   !.subscriptionStatus = JsNull]
    ELSE [u EXCEPT !.subscriptionStatus = answer.result]

StatusOutcomeStores(u, answer) ==
    IF answer.threw
    THEN [u EXCEPT !.error = Str(OrElse(answer.message,
                                        "Failed to get subscription status"))]
    ELSE [u EXCEPT !.subscriptionStatus = answer.result,
                   !.storage["bbq-subscription"] = JSONstringify(answer.result)]

\* setSubscriptionStatus(status) / setError of a status fetch
StatusOutcome(u, answer) ==
    IF answer.threw
    THEN [u EXCEPT !.error = Str(OrElse(answer.message,
                                        "Failed to get subscription status"))]
    ELSE [u EXCEPT !.subscriptionStatus = answer.result]

GetStatusResolvedCancels(u, t, answer) ==
    LET u1 == [StatusOutcome(u, answer) EXCEPT !.loading =
                  IF t.origin = "effect" THEN [u.loading EXCEPT !["status"] = FALSE]
                  ELSE SpreadLoading(t.L, "status", FALSE)]
        others == {x \in BagToSet(u.tasks) : x.kind # "status"}
    IN  [u1 EXCEPT !.tasks = [x \in others |-> u.tasks[x]]]

\* handleGetStatus, and the effect's checkStatus, from the answer on
GetStatusResolved(u, t, answer) ==
    Remove([StatusOutcome(u, answer) EXCEPT !.loading =
               IF t.origin = "effect" THEN [u.loading EXCEPT !["status"] = FALSE]
               ELSE SpreadLoading(t.L, "status", FALSE)], t)

\* setTimeout(() => handleGetStatus(id), 2000) by the handler of a task
StatusTimer(t, id, subId) ==
    [kind |-> "timer", phase |-> "waiting", origin |-> t.kind, id |-> id,
     L |-> t.L, subId |-> subId]

\* ---- Create Subscription

handleCreateSubscriptionUnguarded(u) ==
    Add([u EXCEPT !.loading = SpreadLoading(u.loading, "subscription", TRUE),
                  !.error = JsNull, !.success = JsNull],
        [kind |-> "subscription", phase |-> "sent", L |-> u.loading,
         subId |-> Field(u.subscription, "id"),
         opts |-> [recurringCharge |-> u.subscriptionAmount,
                   subscriptionOwner |-> Field(u.wallet, "address"),
                   periodInDays |-> 30, testnet |-> TRUE]])

handleCreateSubscriptionNoBusyFlag(u) ==
    IF u.wallet = JsNull
    THEN [u EXCEPT !.error = Str("Please create a wallet first")]
    ELSE Add([u EXCEPT !.error = JsNull, !.success = JsNull],
             [kind |-> "subscription", phase |-> "sent", L |-> u.loading,
              subId |-> Field(u.subscription, "id"),
              opts |-> [recurringCharge |-> u.subscriptionAmount,
                        subscriptionOwner |-> Field(u.wallet, "address"),
                        periodInDays |-> 30, testnet |-> TRUE]])

\* handleCreateSubscription up to its await
handleCreateSubscription(u) ==
    IF u.wallet = JsNull
    THEN [u EXCEPT !.error = Str("Please create a wallet first")]
    ELSE Add([u EXCEPT !.loading = SpreadLoading(u.loading, "subscription", TRUE),
                       !.error = JsNull, !.success = JsNull],
             [kind |-> "subscription", phase |-> "sent", L |-> u.loading,
              subId |-> Field(u.subscription, "id"),
              opts |-> [recurringCharge |-> u.subscriptionAmount,
                        subscriptionOwner |-> Field(u.wallet, "address"),
                        periodInDays |-> 30, testnet |-> TRUE]])

CreateSubscriptionResolvedStoresId(u, t, answer) ==
    LET u1 == IF answer.threw
              THEN [u EXCEPT !.error = Str(OrElse(answer.message,
                                                  "Failed to create subscription"))]
              ELSE LET subscriptionData ==
                         [id |-> answer.result.id,
                          subscriptionPayer |-> answer.result.subscriptionPayer,
                          recurringCharge |-> answer.result.recurringCharge,
                          periodInDays |-> answer.result.periodInDays]
                   IN Add([u EXCEPT !.subscription = subscriptionData,
                                    !.storage["bbq-subscription"] =
                                        JSONstringify([id |-> answer.result.id]),
                                    !.success = Str("Subscription created successfully!")],
                          StatusTimer(t, answer.result.id, t.subId))
    IN  Remove([u1 EXCEPT !.loading = SpreadLoading(t.L, "subscription", FALSE)], t)

\* handleCreateSubscription from the answer on
CreateSubscriptionResolved(u, t, answer) ==
    LET u1 == IF answer.threw
              THEN [u EXCEPT !.error = Str(OrElse(answer.message,
                                                  "Failed to create subscription"))]
              ELSE LET subscriptionData ==
                         [id |-> answer.result.id,
                          subscriptionPayer |-> answer.result.subscriptionPayer,
                          recurringCharge |-> answer.result.recurringCharge,
                          periodInDays |-> answer.result.periodInDays]
                   IN Add([u EXCEPT !.subscription = subscriptionData,
                                    !.storage["bbq-subscription"] =
                                        JSONstringify(subscriptionData),
                                    !.success = Str("Subscription created successfully!")],
                          StatusTimer(t, answer.result.id, t.subId))
    IN  Remove([u1 EXCEPT !.loading = SpreadLoading(t.L, "subscription", FALSE)], t)

\* ---- Charge Subscription

ChargeRequestBodyAlwaysRecipient(u) ==
    (Opt("subscriptionId", Field(u.subscription, "id")) @@ [amount |-> u.chargeAmount])
    @@ [recipient |-> u.recipientAddress]

\* the body of the request to the charge handler
ChargeRequestBody(u) ==
    (Opt("subscriptionId", Field(u.subscription, "id")) @@ [amount |-> u.chargeAmount])
    @@ Opt("recipient", OrElse(u.recipientAddress, Undefined))

handleChargeSubscriptionRefreshesEarly(u) ==
    IF u.wallet = JsNull \/ u.subscription = JsNull
    THEN [u EXCEPT !.error = Str("Please create a wallet and subscription first")]
    ELSE LET t == [kind |-> "charge", phase |-> "sent", L |-> u.loading,
                   subId |-> Field(u.subscription, "id"),
                   req |-> [body |-> JSONstringify(ChargeRequestBody(u))]]
         IN  Add(Add([u EXCEPT !.loading = SpreadLoading(u.loading, "charge", TRUE),
                               !.error = JsNull, !.success = JsNull], t),
                 StatusTimer(t, Undefined, t.subId))

\* handleChargeSubscription up to its await
handleChargeSubscription(u) ==
    IF u.wallet = JsNull \/ u.subscription = JsNull
    THEN [u EXCEPT !.error = Str("Please create a wallet and subscription first")]
    ELSE Add([u EXCEPT !.loading = SpreadLoading(u.loading, "charge", TRUE),
                       !.error = JsNull, !.success = JsNull],
             [kind |-> "charge", phase |-> "sent", L |-> u.loading,
              subId |-> Field(u.subscription, "id"),
              req |-> [body |-> JSONstringify(ChargeRequestBody(u))]])

ChargeFailureBannerOneKind(data) ==
    IF ~Falsy(Field(data, "error"))
    THEN (([title |-> data.error, type |-> "error"]
           @@ [message |-> OrElse(Field(data, "message"), data.error)])
           @@ Opt("details", Field(data, "details")))
    ELSE Str("Failed to charge subscription")

\* the banner of a response of the charge handler that is not OK
ChargeFailureBanner(data) ==
    IF Field(data, "error") = "Insufficient Gas"
    THEN (([title |-> data.error, type |-> "gas"]
           @@ Opt("message", Field(data, "message")))
           @@ Opt("details", Field(data, "details")))
    ELSE IF ~Falsy(Field(data, "error"))
    THEN (([title |-> data.error, type |-> "error"]
           @@ [message |-> OrElse(Field(data, "message"), data.error)])
           @@ Opt("details", Field(data, "details")))
    ELSE Str("Failed to charge subscription")

ChargeResolvedAlwaysRefreshes(u, t, resp) ==
    LET data == resp.body
        u1 == IF ~Ok(resp)
              THEN Add([u EXCEPT !.error = ChargeFailureBanner(data)],
                       StatusTimer(t, Undefined, t.subId))
              ELSE IF "success" \in DOMAIN data /\ data.success
              THEN Add([u EXCEPT !.success =
                           Str(OrElse(Field(data, "message"),
                                      "Successfully charged $" \o data.amount))],
                       StatusTimer(t, Undefined, t.subId))
              ELSE [u EXCEPT !.error = Str(OrElse(Field(data, "message"),
                                                  "Failed to charge subscription"))]
    IN  Remove([u1 EXCEPT !.loading = SpreadLoading(t.L, "charge", FALSE)], t)

\* handleChargeSubscription from the response on
ChargeResolved(u, t, resp) ==
    LET data == resp.body
        u1 == IF ~Ok(resp)
              THEN [u EXCEPT !.error = ChargeFailureBanner(data)]
              ELSE IF "success" \in DOMAIN data /\ data.success
              THEN Add([u EXCEPT !.success =
                           Str(OrElse(Field(data, "message"),
                                      "Successfully charged $" \o data.amount))],
                       StatusTimer(t, Undefined, t.subId))
              ELSE [u EXCEPT !.error = Str(OrElse(Field(data, "message"),
                                                  "Failed to charge subscription"))]
    IN  Remove([u1 EXCEPT !.loading = SpreadLoading(t.L, "charge", FALSE)], t)

\* ---- Revoke Subscription

handleRevokeSubscriptionUnguarded(u) ==
    Add([u EXCEPT !.loading = SpreadLoading(u.loading, "revoke", TRUE),
                  !.error = JsNull, !.success = JsNull],
        [kind |-> "revoke", phase |-> "sent", L |-> u.loading,
         subId |-> Field(u.subscription, "id"),
         req |-> [body |-> JSONstringify(
                     Opt("subscriptionId", Field(u.subscription, "id")))]])

\* handleRevokeSubscription up to its await
handleRevokeSubscription(u) ==
    IF u.subscription = JsNull
    THEN [u EXCEPT !.error = Str("No subscription to revoke")]
    ELSE Add([u EXCEPT !.loading = SpreadLoading(u.loading, "revoke", TRUE),
                       !.error = JsNull, !.success = JsNull],
             [kind |-> "revoke", phase |-> "sent", L |-> u.loading,
              subId |-> Field(u.subscription, "id"),
              req |-> [body |-> JSONstringify(
                          Opt("subscriptionId", Field(u.subscription, "id")))]])

RevokedBanner ==
    Str("Subscription revoked successfully! You can still try to charge to validate the revoke took effect.")

RevokeResolvedClears(u, t, resp) ==
    LET u1 == IF ~Ok(resp)
              THEN [u EXCEPT !.error = Str(OrElse(Field(resp.body, "error"),
                                                  "Failed to revoke subscription"))]
              ELSE Add([u EXCEPT !.success = RevokedBanner,
                                 !.subscription = JsNull,
                                 !.storage["bbq-subscription"] = NoItem],
                       StatusTimer(t, Undefined, t.subId))
    IN  Remove([u1 EXCEPT !.loading = SpreadLoading(t.L, "revoke", FALSE)], t)

\* handleRevokeSubscription from the response on
RevokeResolved(u, t, resp) ==
    LET u1 == IF ~Ok(resp)
              THEN [u EXCEPT !.error = Str(OrElse(Field(resp.body, "error"),
                                                  "Failed to revoke subscription"))]
              ELSE Add([u EXCEPT !.success = RevokedBanner],
                       StatusTimer(t, Undefined, t.subId))
    IN  Remove([u1 EXCEPT !.loading = SpreadLoading(t.L, "revoke", FALSE)], t)

---------------------------------------------------------------------------
\* The page: what the user, the network, the platform and the clock do

platformVars == <<platWallets, platSubs>>

CanClick == session.clicks < MaxClicks

\* the history of the session: what the user did, or which work was finished, last
Did(u, last) == [u EXCEPT !.session.last = last]
Clicked(u, action) ==
    [u EXCEPT !.session.clicks = @ + 1, !.session.last = [action |-> action]]

\* buttons, as rendered: onClick with the disabled attribute
ClickCreateWallet ==
    /\ ~(loading["wallet"] \/ wallet # JsNull)
    /\ CanClick
    /\ Commit(UI, handleCreateWallet(Clicked(UI, "ClickCreateWallet")))
    /\ hlast' = NoInvocation
    /\ UNCHANGED <<platformVars, returned, env>>

ClickCreateSubscription ==
    /\ ~(loading["subscription"] \/ subscription # JsNull)
    /\ CanClick
    /\ Commit(UI, handleCreateSubscription(Clicked(UI, "ClickCreateSubscription")))
    /\ hlast' = NoInvocation
    /\ UNCHANGED <<platformVars, returned, env>>

ClickGetStatus ==
    /\ subscription # JsNull
    /\ ~loading["status"]
    /\ CanClick
    /\ Commit(UI, handleGetStatus(Clicked(UI, "ClickGetStatus"), Undefined, loading,
                                  Field(subscription, "id"), "button"))
    /\ hlast' = NoInvocation
    /\ UNCHANGED <<platformVars, returned, env>>

ClickCharge ==
    /\ ~(loading["charge"] \/ wallet = JsNull \/ subscription = JsNull)
    /\ CanClick
    /\ Commit(UI, handleChargeSubscription(Clicked(UI, "ClickCharge")))
    /\ hlast' = NoInvocation
    /\ UNCHANGED <<platformVars, returned, env>>

ClickRevoke ==
    /\ ~(loading["revoke"] \/ subscription = JsNull)
    /\ CanClick
    /\ Commit(UI, handleRevokeSubscription(Clicked(UI, "ClickRevoke")))
    /\ hlast' = NoInvocation
    /\ UNCHANGED <<platformVars, returned, env>>

\* the inputs: onChange={(e) => set...(e.target.value)}
SubscriptionAmounts == {"29.99", "19.99"}
ChargeAmounts == {"1.00", ""}
RecipientAddresses == {"", "0xR"}

TypeSubscriptionAmount ==
    /\ subscription = JsNull /\ CanClick
    /\ \E v \in SubscriptionAmounts \ {subscriptionAmount} :
          Commit(UI, [Clicked(UI, "TypeSubscriptionAmount")
                        EXCEPT !.subscriptionAmount = v])
    /\ hlast' = NoInvocation
    /\ UNCHANGED <<platformVars, returned, env>>

TypeChargeAmount ==
    /\ wallet # JsNull /\ subscription # JsNull /\ CanClick
    /\ \E v \in ChargeAmounts \ {chargeAmount} :
          Commit(UI, [Clicked(UI, "TypeChargeAmount") EXCEPT !.chargeAmount = v])
    /\ hlast' = NoInvocation
    /\ UNCHANGED <<platformVars, returned, env>>

TypeRecipientAddress ==
    /\ wallet # JsNull /\ subscription # JsNull /\ CanClick
    /\ \E v \in RecipientAddresses \ {recipientAddress} :
          Commit(UI, [Clicked(UI, "TypeRecipientAddress") EXCEPT !.recipientAddress = v])
    /\ hlast' = NoInvocation
    /\ UNCHANGED <<platformVars, returned, env>>

\* a request is answered on the way, not by the handler: an error status with a
\* JSON body that has no error field
GatewayError == Response(502, EmptyObject)

\* The backend or the platform answers and the continuation after the await
\* runs with that answer.
ResolveCreateWallet ==
    \E t \in Pending("wallet", "sent") : \E h \in CreateWalletPOST(platWallets) :
        /\ Commit(UI, CreateWalletResolved(
                        Did(UI, [action |-> "ResolveCreateWallet", task |-> t]),
                        t, h.resp))
        /\ platWallets' = h.state
        /\ hlast' = Invocation("create-wallet", [body |-> MalformedText], h)
        /\ UNCHANGED <<platSubs, returned, env>>

ResolveCreateSubscription ==
    \E t \in Pending("subscription", "sent") :
      \E o \in PlatformSubscribe(t.opts, platSubs) :
        /\ Commit(UI, CreateSubscriptionResolved(
                        Did(UI, [action |-> "ResolveCreateSubscription", task |-> t,
                                 answer |-> Answer(o)]),
                        t, Answer(o)))
        /\ platSubs' = o.state
        /\ hlast' = NoInvocation
        /\ UNCHANGED <<platWallets, returned, env>>

ResolveGetStatus ==
    \E t \in Pending("status", "sent") :
      \E o \in PlatformGetStatus(t.opts, platSubs) :
        /\ Commit(UI, GetStatusResolved(
                        Did(UI, [action |-> "ResolveGetStatus", task |-> t,
                                 answer |-> Answer(o)]),
                        t, Answer(o)))
        /\ hlast' = NoInvocation
        /\ UNCHANGED <<platformVars, returned, env>>

ResolveCharge ==
    \E t \in Pending("charge", "sent") : \E h \in ChargePOST(t.req, platSubs) :
        /\ Commit(UI, ChargeResolved(
                        Did(UI, [action |-> "ResolveCharge", task |-> t]), t, h.resp))
        /\ platSubs' = h.state
        /\ hlast' = Invocation("charge", t.req, h)
        /\ UNCHANGED <<platWallets, returned, env>>

ResolveChargeAtGateway ==
    \E t \in Pending("charge", "sent") :
        /\ Commit(UI, ChargeResolved(
                        Did(UI, [action |-> "ResolveCharge", task |-> t]),
                        t, GatewayError))
        /\ hlast' = Invocation("gateway", t.req, Handled(GatewayError, <<>>, platSubs))
        /\ UNCHANGED <<platformVars, returned, env>>

ResolveRevoke ==
    \E t \in Pending("revoke", "sent") : \E h \in RevokePOST(t.req, platSubs) :
        /\ Commit(UI, RevokeResolved(
                        Did(UI, [action |-> "ResolveRevoke", task |-> t]), t, h.resp))
        /\ platSubs' = h.state
        /\ hlast' = Invocation("revoke", t.req, h)
        /\ UNCHANGED <<platWallets, returned, env>>

\* the 2000 ms of a setTimeout are over
TimerFires ==
    /\ \E t \in Pending("timer", "waiting") :
          Commit(UI, handleGetStatus(
                        Remove(Did(UI, [action |-> "TimerFires", task |-> t]), t),
                        t.id, t.L, t.subId, t.origin))
    /\ hlast' = NoInvocation
    /\ UNCHANGED <<platformVars, returned, env>>

\* the page is loaded again: pending work is gone, storage stays
Reloaded(store, clicks) ==
    [FirstRender(store) EXCEPT !.session.clicks = clicks,
                               !.session.last = [action |-> "Reload"]]

Reload ==
    /\ CanClick
    /\ Commit(Reloaded(storage, session.clicks + 1),
              LoadFromStorage(Reloaded(storage, session.clicks + 1)))
    /\ hlast' = NoInvocation
    /\ UNCHANGED <<platformVars, returned, env>>

\* what earlier page loads, or a user editing the storage, can have left
StoredWallet ==
    [address |-> "0xA1", walletName |-> WALLET_NAME,
     message |-> "CDP smart wallet ready for subscription management"]
StoredSubscription ==
    [id |-> "sub-1", subscriptionPayer |-> "0xPayer", recurringCharge |-> "19.99",
     periodInDays |-> 30]
Store(a, b) ==
    [w \in {"bbq-wallet", "bbq-subscription"} |-> IF w = "bbq-wallet" THEN a ELSE b]
InitialStores ==
    {Store(NoItem, NoItem),
     Store(MalformedText, JSONstringify(StoredSubscription)),
     Store(JSONstringify(StoredWallet), MalformedText),
     Store(JSONstringify(EmptyObject), JSONstringify(EmptyObject))}

Init ==
    \E store \in InitialStores :
        /\ LET u == Mounted(store) IN
            /\ wallet = u.wallet
            /\ subscription = u.subscription
            /\ subscriptionStatus = u.subscriptionStatus
            /\ loading = u.loading
            /\ error = u.error
            /\ success = u.success
            /\ subscriptionAmount = u.subscriptionAmount
            /\ chargeAmount = u.chargeAmount
            /\ recipientAddress = u.recipientAddress
            /\ storage = u.storage
            /\ tasks = u.tasks
            /\ session = u.session
        /\ platWallets = [n \in WalletNames |->
              IF n = WALLET_NAME /\ (store["bbq-wallet"] = JSONstringify(StoredWallet)
                    \/ store["bbq-subscription"] = JSONstringify(StoredSubscription))
              THEN "0xA1" ELSE NoWallet]
        /\ platSubs = [i \in SubIds |->
              IF i = "sub-1" /\ store["bbq-subscription"] = JSONstringify(StoredSubscription)
              THEN [exists |-> TRUE, revoked |-> FALSE, owner |-> "0xA1",
                    charges |-> <<>>, remaining |-> 1999]
              ELSE NoSub]
        /\ hlast = NoInvocation
        /\ returned = <<>>
        /\ Deployed(env)

Next ==
    \/ ClickCreateWallet \/ ClickCreateSubscription \/ ClickGetStatus
    \/ ClickCharge \/ ClickRevoke
    \/ TypeSubscriptionAmount \/ TypeChargeAmount \/ TypeRecipientAddress
    \/ ResolveCreateWallet \/ ResolveCreateSubscription \/ ResolveGetStatus
    \/ ResolveCharge \/ ResolveChargeAtGateway \/ ResolveRevoke
    \/ TimerFires \/ Reload

Spec == Init /\ [][Next]_vars

---------------------------------------------------------------------------
\* The handlers of the component called while their button is disabled or not
\* rendered (a second click before the next render, a script on the page)

InvokeGetStatus ==
    /\ subscription = JsNull \/ loading["status"]
    /\ CanClick
    /\ Commit(UI, handleGetStatus(Clicked(UI, "InvokeGetStatus"), Undefined, loading,
                                  Field(subscription, "id"), "button"))
    /\ hlast' = NoInvocation
    /\ UNCHANGED <<platformVars, returned, env>>

InvokeCharge ==
    /\ loading["charge"] \/ wallet = JsNull \/ subscription = JsNull
    /\ CanClick
    /\ Commit(UI, handleChargeSubscription(Clicked(UI, "InvokeCharge")))
    /\ hlast' = NoInvocation
    /\ UNCHANGED <<platformVars, returned, env>>

InvokeRevoke ==
    /\ loading["revoke"] \/ subscription = JsNull
    /\ CanClick
    /\ Commit(UI, handleRevokeSubscription(Clicked(UI, "InvokeRevoke")))
    /\ hlast' = NoInvocation
    /\ UNCHANGED <<platformVars, returned, env>>

NextInvoke == Next \/ InvokeGetStatus \/ InvokeCharge \/ InvokeRevoke

SpecInvoke == Init /\ [][NextInvoke]_vars

---------------------------------------------------------------------------
\* The server process started again with other credentials, the page left open

Redeploy ==
    /\ env' \in Environments \ {env}
    /\ session' = [session EXCEPT !.last = [action |-> "Redeploy"]]
    /\ hlast' = NoInvocation
    /\ UNCHANGED <<wallet, subscription, subscriptionStatus, loading, error, success,
                   subscriptionAmount, chargeAmount, recipientAddress, storage, tasks,
                   platformVars, returned>>

NextCredentials == Next \/ Redeploy

SpecCredentials == Init /\ [][NextCredentials]_vars

---------------------------------------------------------------------------
\* Properties of the component

CopiesOf(kind, bag) ==
    LET ts == {t \in BagToSet(bag) : t.kind = kind} IN
    [t \in ts |-> CopiesIn(t, bag)]
HasId(s) == s # JsNull /\ ~MissingOrEmpty(Field(s, "id"))

\* C3: a response of the charge request that is not OK gives the banner of kind
\* gas, next to the wallet's address, when its error field is "Insufficient Gas",
\* the banner of kind error when the field has another non-empty value, and the
\* plain message "Failed to charge subscription" when there is no error field; the
\* step sets no success banner and schedules no status refresh.
ChargeFailed == session.last.action = "ResolveCharge" /\ ~Ok(hlast.resp)
C3_ChargeFailureBanners ==
    [][ChargeFailed' =>
          LET e == Field(hlast'.resp.body, "error") IN
          /\ e = "Insufficient Gas"
               => /\ Field(error', "type") = "gas"
                  /\ Field(error', "title") = e
                  /\ wallet' # JsNull
          /\ (e # "Insufficient Gas" /\ ~MissingOrEmpty(e))
               => /\ Field(error', "type") = "error"
                  /\ Field(error', "title") = e
          /\ e = Undefined => error' = [string |-> "Failed to charge subscription"]
          /\ success' = success
          /\ CopiesOf("timer", tasks') = CopiesOf("timer", tasks)
          /\ CopiesOf("status", tasks') = CopiesOf("status", tasks)]_vars

C3_Witness ==
    /\ ChargeFailed
    /\ Field(hlast.resp.body, "error") = "Insufficient Gas"
    /\ Field(error, "type") = "gas"
    /\ Field(wallet, "address") = "0xA1"

\* C4: a subscription restored from storage gets exactly one automatic status
\* fetch, for its id; the effect does not fetch again, whatever the outcome of
\* that fetch.
AutomaticFetches == {t \in BagToSet(tasks) : t.kind = "status" /\ t.origin = "effect"}
C4_OneAutomaticFetch ==
    (session.restored /\ HasId(subscription))
        => /\ session.autoFetches = 1
           /\ \A t \in AutomaticFetches :
                 /\ CopiesIn(t, tasks) = 1
                 /\ Field(t.opts, "id") = subscription.id

C4_Witness ==
    /\ session.restored /\ HasId(subscription)
    /\ session.last.action = "ResolveGetStatus"
    /\ session.last.task.origin = "effect"
    /\ session.last.answer.threw
    /\ subscriptionStatus = JsNull
    /\ ~loading["status"]
    /\ tasks = EmptyBag

\* C5: Create Subscription with no wallet calls nothing, changes no busy flag,
\* leaves the subscription absent and the storage as it is, and sets an error
\* banner.
C5_SubscribeNeedsWallet ==
    [][(session'.last.action = "ClickCreateSubscription" /\ wallet = JsNull)
          => /\ tasks' = tasks
             /\ platSubs' = platSubs
             /\ loading' = loading
             /\ subscription' = JsNull
             /\ storage' = storage
             /\ error' = [string |-> "Please create a wallet first"]]_vars

C5_Witness ==
    /\ session.last.action = "ClickCreateSubscription"
    /\ wallet = JsNull
    /\ error = [string |-> "Please create a wallet first"]

\* C6: a successful revoke leaves the subscription in state and in storage, so
\* that with a wallet the Charge button is live and a charge sends the id that
\* was revoked.
RevokeSucceeded == session.last.action = "ResolveRevoke" /\ Ok(hlast.resp)
ChargesFor(id, bag) ==
    {t \in BagToSet(bag) :
        /\ t.kind = "charge"
        /\ Field(JSONparse(t.req.body).value, "subscriptionId") = id}
C6_RevokeKeepsSubscription ==
    [][RevokeSucceeded' =>
          /\ subscription' = subscription
          /\ storage' = storage
          /\ HasId(subscription')
          /\ subscription'.id = hlast'.resp.body.subscriptionId
          /\ wallet' # JsNull
               => \E t \in ChargesFor(subscription'.id,
                                      handleChargeSubscription(UI').tasks) :
                     CopiesIn(t, handleChargeSubscription(UI').tasks)
                        = CopiesIn(t, tasks') + 1]_vars

C6_Witness ==
    /\ session.last.action = "ClickCharge"
    /\ \E t \in ChargesFor("sub-1", tasks) : TRUE
    /\ platSubs["sub-1"].revoked
    /\ subscription # JsNull /\ subscription.id = "sub-1"
    /\ storage["bbq-subscription"] = JSONstringify(subscription)

\* C7: with a subscription of 19.99 for 30 days whose status shows 19.99 left,
\* a successful charge of 1.00 schedules a status refresh; when its time is over
\* the status of that subscription is fetched with no click, and the result takes
\* the place of the status shown: 18.99 left.
ChargeSucceeded ==
    session.last.action = "ResolveCharge" /\ Ok(hlast.resp) /\ hlast.resp.body.success
Scenario1999 ==
    /\ wallet # JsNull /\ HasId(subscription)
    /\ Field(subscription, "recurringCharge") = "19.99"
    /\ Field(subscription, "periodInDays") = 30
    /\ subscriptionStatus # JsNull
    /\ subscriptionStatus.isSubscribed
    /\ subscriptionStatus.remainingChargeInPeriod = "19.99"
OneMore(kind, origin, before, after) ==
    \E t \in BagToSet(after) :
        /\ t.kind = kind /\ t.origin = origin
        /\ CopiesIn(t, after) = CopiesIn(t, before) + 1
C7_ChargeThenRefresh ==
    [][/\ (ChargeSucceeded' /\ Scenario1999 /\ hlast'.resp.body.amount = "1.00")
            => OneMore("timer", "charge", tasks, tasks')
       /\ (session'.last.action = "TimerFires" /\ session'.last.task.origin = "charge"
             /\ Scenario1999)
            => /\ session'.clicks = session.clicks
               /\ \E t \in BagToSet(tasks') :
                     /\ t.kind = "status" /\ t.origin = "charge"
                     /\ t.opts.id = subscription.id
                     /\ CopiesIn(t, tasks') = CopiesIn(t, tasks) + 1
       /\ (session'.last.action = "ResolveGetStatus"
             /\ session'.last.task.origin = "charge"
             /\ ~session'.last.answer.threw
             /\ Scenario1999)
            => /\ subscriptionStatus' = session'.last.answer.result
               /\ platSubs[subscription.id].charges = <<"1.00">>
                    => subscriptionStatus'.remainingChargeInPeriod = "18.99"]_vars

C7_Witness ==
    /\ session.last.action = "ResolveGetStatus"
    /\ session.last.task.origin = "charge"
    /\ wallet # JsNull /\ HasId(subscription)
    /\ subscription.recurringCharge = "19.99"
    /\ platSubs[subscription.id].charges = <<"1.00">>
    /\ subscriptionStatus # JsNull
    /\ subscriptionStatus.remainingChargeInPeriod = "18.99"

\* C10: Create Wallet does nothing, and sends nothing, while a wallet creation is
\* in flight or a wallet is present.
WalletInFlight == \E t \in BagToSet(tasks) : t.kind = "wallet"
C10_CreateWalletGuarded ==
    [][(session'.last.action = "ClickCreateWallet"
          /\ (WalletInFlight \/ wallet # JsNull))
          => /\ tasks' = tasks
             /\ loading' = loading
             /\ error' = error
             /\ success' = success
             /\ wallet' = wallet
             /\ storage' = storage]_vars

\* C11: a request to the charge handler or to the revoke handler is sent only
\* from a state that holds both a wallet and a subscription.
Issued(kind, before, after) ==
    \E t \in BagToSet(after) :
        t.kind = kind /\ CopiesIn(t, after) > CopiesIn(t, before)
C11_RequestsNeedWalletAndSubscription ==
    [][(Issued("charge", tasks, tasks') \/ Issued("revoke", tasks, tasks'))
          => (wallet # JsNull /\ subscription # JsNull)]_vars

\* C12: a reload brings back the wallet and the subscription the page held, and
\* never a status: the status is not stored, is absent after the reload, and is
\* set by nothing but the result of a status fetch.
StorageKeys == {"bbq-wallet", "bbq-subscription"}
C12_ReloadRestores ==
    [][/\ session'.last.action = "Reload"
            => /\ wallet # JsNull => wallet' = wallet
               /\ subscription # JsNull => subscription' = subscription
               /\ subscriptionStatus' = JsNull
       /\ (subscriptionStatus' # subscriptionStatus /\ subscriptionStatus' # JsNull)
            => /\ session'.last.action = "ResolveGetStatus"
               /\ ~session'.last.answer.threw
               /\ subscriptionStatus' = session'.last.answer.result
       /\ DOMAIN storage' = StorageKeys
       /\ storage'["bbq-wallet"] # storage["bbq-wallet"]
            => \/ storage'["bbq-wallet"] = JSONstringify(wallet')
               \/ storage'["bbq-wallet"] = NoItem
       /\ storage'["bbq-subscription"] # storage["bbq-subscription"]
            => storage'["bbq-subscription"] = JSONstringify(subscription')]_vars

C12_Witness ==
    /\ session.last.action = "Reload"
    /\ wallet # JsNull /\ Field(wallet, "address") = "0xA2"
    /\ storage["bbq-wallet"] = JSONstringify(wallet)
    /\ subscription # JsNull /\ Field(subscription, "recurringCharge") = "29.99"
    /\ subscriptionStatus = JsNull

\* C13: every handler answers every request with one JSON response; a platform
\* call that throws gives status 500 with the message of the error as the error
\* field, and a 200 is given only after one platform call that returned.
HandlersAlwaysAnswer ==
    /\ \A req \in Requests(ChargeBodies) : ChargePOST(req, platSubs) # {}
    /\ \A req \in Requests(RevokeBodies) : RevokePOST(req, platSubs) # {}
    /\ CreateWalletPOST(platWallets) # {}
    /\ hlast.handler # "none"
         => /\ hlast.resp.status \in {200, 400, 500}
            /\ ~Ok(hlast.resp) => "error" \in DOMAIN hlast.resp.body
            /\ Ok(hlast.resp) => (Len(hlast.calls) = 1 /\ ~hlast.calls[1].answer.threw)
PlatformThrew == Len(hlast.calls) = 1 /\ hlast.calls[1].answer.threw
C13_PlatformMessageAlways ==
    /\ HandlersAlwaysAnswer
    /\ (hlast.handler # "none" /\ PlatformThrew)
         => /\ hlast.resp.status = 500
            /\ Field(hlast.resp.body, "error") = hlast.calls[1].answer.message

\* C13, as the code has it: the error field is the message of the platform's
\* error when it has one, and the handler's own text when the message is empty.
HandlerFallbackText ==
    [h \in {"charge", "revoke", "create-wallet"} |->
        CASE h = "charge" -> "Failed to charge subscription"
          [] h = "revoke" -> "Failed to revoke subscription"
          [] h = "create-wallet" -> "Failed to create/retrieve wallet"]
C13_PlatformMessageOrFallback ==
    /\ HandlersAlwaysAnswer
    /\ (hlast.handler # "none" /\ PlatformThrew)
         => /\ hlast.resp.status = 500
            /\ Field(hlast.resp.body, "error") =
                  IF hlast.calls[1].answer.message = ""
                  THEN HandlerFallbackText[hlast.handler]
                  ELSE hlast.calls[1].answer.message

C13_Witness ==
    /\ hlast.handler = "charge" /\ PlatformThrew
    /\ hlast.calls[1].answer.message = "execution reverted"
    /\ hlast.resp.status = 500

\* C14: every response of the charge handler that is not OK carries success: false
\* and an error field.
C14_ChargeFailureShape ==
    (hlast.handler = "charge" /\ ~Ok(hlast.resp))
        => /\ "success" \in DOMAIN hlast.resp.body
           /\ ~hlast.resp.body.success
           /\ "error" \in DOMAIN hlast.resp.body

\* C15: subscribe and getStatus calls of the component, and charge and revoke
\* calls of the handlers, all carry testnet: true.
OnTestnet(opts) == "testnet" \in DOMAIN opts /\ opts.testnet
C15_AlwaysTestnet ==
    /\ \A t \in BagToSet(tasks) :
          t.kind \in {"status", "subscription"} => OnTestnet(t.opts)
    /\ hlast.handler \in {"charge", "revoke"}
         => \A i \in DOMAIN hlast.calls : OnTestnet(hlast.calls[i].opts)

C15_Witness ==
    /\ hlast.handler = "revoke" /\ Len(hlast.calls) = 1
    /\ OnTestnet(hlast.calls[1].opts)
    /\ \E t \in BagToSet(tasks) :
          t.kind = "status" /\ t.origin = "charge" /\ OnTestnet(t.opts)

\* C16: while the page is not loaded again, a wallet in state stays as it is and
\* a subscription in state stays, with its id.
C16_WalletAndSubscriptionStay ==
    [][session'.last.action # "Reload"
          => /\ wallet # JsNull => wallet' = wallet
             /\ subscription # JsNull
                  => /\ subscription' # JsNull
                     /\ Field(subscription', "id") = Field(subscription, "id")]_vars

C16_Witness ==
    /\ session.last.action = "ResolveCreateWallet"
    /\ wallet # JsNull /\ WalletInFlight
    /\ HasId(subscription)

\* C17: Get Status with no subscription id, Charge with no wallet or no
\* subscription, and Revoke with no subscription send nothing, change no busy flag
\* and set an error banner.
GuardFails(action) ==
    \/ /\ action \in {"ClickGetStatus", "InvokeGetStatus"}
       /\ MissingOrEmpty(Field(subscription, "id"))
    \/ /\ action \in {"ClickCharge", "InvokeCharge"}
       /\ (wallet = JsNull \/ subscription = JsNull)
    \/ /\ action \in {"ClickRevoke", "InvokeRevoke"}
       /\ subscription = JsNull
C17_GuardsStopLocally ==
    [][GuardFails(session'.last.action)
          => /\ tasks' = tasks
             /\ loading' = loading
             /\ platWallets' = platWallets /\ platSubs' = platSubs
             /\ hlast' = [handler |-> "none"]
             /\ error' # JsNull
             /\ "string" \in DOMAIN error']_vars

C17_Witness ==
    /\ session.last.action = "InvokeCharge"
    /\ subscription # JsNull /\ wallet = JsNull
    /\ error = [string |-> "Please create a wallet and subscription first"]
    /\ ~loading["charge"]

\* C18: no response of a handler and nothing the component holds is one of the
\* three credential values, and what a handler can answer to a request, with the
\* platform's answers it follows from, is the same under any two environments.
CredentialValues == {env[k] : k \in DOMAIN env}
NotText == {"success", "jsnull", "periodInDays", "isSubscribed", "testnet"}
Texts(o) == {o[k] : k \in DOMAIN o \ NotText}
StoredTexts(item) == IF item.kind = "json" THEN Texts(item.value) ELSE {}
TaskTexts(t) ==
    (IF "opts" \in DOMAIN t THEN Texts(t.opts) ELSE {})
    \cup (IF "req" \in DOMAIN t THEN StoredTexts(t.req.body) ELSE {})
ClientTexts ==
    UNION {Texts(wallet), Texts(subscription), Texts(subscriptionStatus),
           Texts(error), Texts(success),
           {subscriptionAmount, chargeAmount, recipientAddress},
           StoredTexts(storage["bbq-wallet"]), StoredTexts(storage["bbq-subscription"]),
           UNION {TaskTexts(t) : t \in BagToSet(tasks)}}
NoCredentialShown ==
    /\ ClientTexts \cap CredentialValues = {}
    /\ hlast.handler # "none" => Texts(hlast.resp.body) \cap CredentialValues = {}
Outcome(h) ==
    [resp |-> h.resp, answers |-> [i \in DOMAIN h.calls |-> h.calls[i].answer],
     state |-> h.state]
HandlerOutcomes ==
    [handler \in {"charge", "revoke", "create-wallet"} |->
        CASE handler = "charge" ->
               [req \in Requests(ChargeBodies) |->
                   {Outcome(h) : h \in ChargePOST(req, platSubs)}]
          [] handler = "revoke" ->
               [req \in Requests(RevokeBodies) |->
                   {Outcome(h) : h \in RevokePOST(req, platSubs)}]
          [] handler = "create-wallet" ->
               [req \in {[body |-> MalformedText]} |->
                   {Outcome(h) : h \in CreateWalletPOST(platWallets)}]]
C18_CredentialsStayServerSide ==
    [][/\ NoCredentialShown'
       /\ env' # env => HandlerOutcomes' = HandlerOutcomes]_vars

C18_Witness ==
    /\ env.CDP_API_KEY_ID = "key-id-2"
    /\ hlast.handler = "charge" /\ Len(hlast.calls) = 1
    /\ hlast.calls[1].opts.cdpApiKeyId = "key-id-2"
    /\ Ok(hlast.resp)
    /\ wallet # JsNull

\* C19: a page that was loaded again holds no wallet and no subscription.
C19_ReloadStartsEmpty ==
    session.last.action = "Reload" => (wallet = JsNull /\ subscription = JsNull)

\* C20: a step of one operation changes no busy flag but that operation's own
\* (the status flag also belongs to a status fetch the effect starts in the step).
OperationOf(action) ==
    CASE action \in {"ClickCreateWallet", "ResolveCreateWallet"} -> "wallet"
      [] action \in {"ClickCreateSubscription", "ResolveCreateSubscription"}
            -> "subscription"
      [] action \in {"ClickGetStatus", "ResolveGetStatus", "TimerFires"} -> "status"
      [] action \in {"ClickCharge", "ResolveCharge"} -> "charge"
      [] action \in {"ClickRevoke", "ResolveRevoke"} -> "revoke"
      [] OTHER -> "none"
EffectFetchIssued(before, after) ==
    \E t \in BagToSet(after) :
        /\ t.kind = "status" /\ t.origin = "effect"
        /\ CopiesIn(t, after) > CopiesIn(t, before)
C20_OwnBusyFlagOnly ==
    [][session'.last.action # "Reload"
          => \A k \in DOMAIN loading :
                loading'[k] # loading[k]
                   => \/ k = OperationOf(session'.last.action)
                      \/ k = "status" /\ EffectFetchIssued(tasks, tasks')]_vars


\* C21: at most one request to the charge handler is in flight, and the Charge
\* button is disabled (its busy flag is set) for as long as one is.
InFlight(kind) ==
    BagCardinality([t \in {x \in BagToSet(tasks) : x.kind = kind} |-> tasks[t]])
C21_OneChargeInFlight ==
    /\ InFlight("charge") <= 1
    /\ InFlight("charge") = 1 => loading["charge"]


\* C22: the error banner and the success banner are never both set.
C22_OneBanner == ~(error # JsNull /\ success # JsNull)


\* C23: a status fetch that fails, whether started by the button, by a timer or
\* by the effect, sets the error banner to a text and leaves the status as it
\* was, absent or present.
StatusFetchFailed ==
    session.last.action = "ResolveGetStatus" /\ session.last.answer.threw
C23_FailedFetchKeepsStatus ==
    [][StatusFetchFailed'
          => /\ subscriptionStatus' = subscriptionStatus
             /\ ~MissingOrEmpty(Field(error', "string"))]_vars

C23_Witness ==
    /\ StatusFetchFailed
    /\ session.last.task.origin = "button"
    /\ subscriptionStatus # JsNull
    /\ error = [string |-> "Failed to fetch"]


\* C24: status fetches that overlap all run to their end: a fetch leaves the
\* set of pending fetches only by its own answer (or with the page), and the
\* answer of one leaves the others pending. A fetch that returns puts its
\* result in the place of the status, whatever the status was and whichever
\* fetch was started first.
StatusFetches(bag) ==
    LET ts == {t \in BagToSet(bag) : t.kind = "status"} IN [t \in ts |-> bag[t]]
C24_LastResolvedFetchWins ==
    [][/\ session'.last.action = "ResolveGetStatus"
            => /\ StatusFetches(tasks') (+) SetToBag({session'.last.task})
                    = StatusFetches(tasks)
               /\ ~session'.last.answer.threw
                    => subscriptionStatus' = session'.last.answer.result
       /\ session'.last.action \notin {"ResolveGetStatus", "Reload"}
            => StatusFetches(tasks) \sqsubseteq StatusFetches(tasks')]_vars

C24_Witness ==
    /\ session.last.action = "ResolveGetStatus"
    /\ session.last.task.origin = "effect"
    /\ ~session.last.answer.threw
    /\ subscriptionStatus = session.last.answer.result
    /\ ~subscriptionStatus.isSubscribed
    /\ \E t \in BagToSet(tasks) : t.kind = "status" /\ t.origin = "revoke"


\* C25: the timer of a delayed status refresh is set only in the step in which
\* the answer to a Create Subscription, Charge or Revoke arrives, only when that
\* answer is a success, and for that operation; the fetch of a refresh is issued
\* only when such a timer fires. So no refresh is fetched before the request of
\* its operation was answered.
Operations == {"subscription", "charge", "revoke"}
Added(t, before, after) == CopiesIn(t, after) > CopiesIn(t, before)
Succeeded(kind, last, h) ==
    CASE kind = "subscription" ->
           last.action = "ResolveCreateSubscription" /\ ~last.answer.threw
      [] kind = "charge" ->
           /\ last.action = "ResolveCharge" /\ Ok(h.resp)
           /\ Field(h.resp.body, "success") = TRUE
      [] kind = "revoke" -> last.action = "ResolveRevoke" /\ Ok(h.resp)
      [] OTHER -> FALSE
C25_RefreshAfterOwnResponse ==
    [][/\ \A t \in BagToSet(tasks') :
            (t.kind = "timer" /\ Added(t, tasks, tasks'))
               => /\ Succeeded(t.origin, session'.last, hlast')
                  /\ session'.last.task.kind = t.origin
                  /\ CopiesIn(session'.last.task, tasks')
                        = CopiesIn(session'.last.task, tasks) - 1
                  /\ CopiesIn(t, tasks') = CopiesIn(t, tasks) + 1
       /\ \A t \in BagToSet(tasks') :
            (t.kind = "status" /\ t.origin \in Operations /\ Added(t, tasks, tasks'))
               => /\ session'.last.action = "TimerFires"
                  /\ session'.last.task.origin = t.origin
                  /\ CopiesIn(session'.last.task, tasks')
                        = CopiesIn(session'.last.task, tasks) - 1]_vars

C25_Witness ==
    /\ session.last.action = "TimerFires"
    /\ session.last.task.origin = "charge"
    /\ InFlight("charge") = 0
    /\ \E t \in BagToSet(tasks) : t.kind = "status" /\ t.origin = "charge"
    /\ \E i \in SubIds : platSubs[i].exists /\ platSubs[i].charges # <<>>


\* C26: the step in which an operation fails starts nothing: no request, no
\* platform call and no timer is added to the pending work, which only loses
\* the request that failed; and a handler calls the platform at most once per
\* request.
OperationFailed(last, h) ==
    CASE last.action = "ResolveCreateWallet" -> ~Ok(h.resp)
      [] last.action = "ResolveCreateSubscription" -> last.answer.threw
      [] last.action = "ResolveGetStatus" -> last.answer.threw
      [] last.action = "ResolveCharge" ->
           ~Ok(h.resp) \/ Field(h.resp.body, "success") # TRUE
      [] last.action = "ResolveRevoke" -> ~Ok(h.resp)
      [] OTHER -> FALSE
C26_NoRetryAfterFailure ==
    [][/\ OperationFailed(session'.last, hlast')
            => tasks' (+) SetToBag({session'.last.task}) = tasks
       /\ hlast'.handler \in {"create-wallet", "charge", "revoke"}
            => Len(hlast'.calls) <= 1]_vars

C26_Witness ==
    /\ session.last.action = "ResolveRevoke"
    /\ OperationFailed(session.last, hlast)
    /\ Len(hlast.calls) = 1 /\ hlast.calls[1].answer.threw
    /\ tasks = EmptyBag
    /\ error # JsNull


\* C27: through the buttons as rendered, at most one subscribe call is pending;
\* a subscribe call is issued only with no subscription in state and none
\* pending; and a subscribe call that returns finds no subscription in state, so
\* that a page session creates at most one (a subscription in state stays
\* until the page is loaded again).
C27_OneSubscribe ==
    [][/\ InFlight("subscription")' <= 1
       /\ Issued("subscription", tasks, tasks')
            => /\ subscription = JsNull
               /\ InFlight("subscription") = 0
       /\ Succeeded("subscription", session'.last, hlast')
            => /\ subscription = JsNull
               /\ HasId(subscription')
               /\ InFlight("subscription")' = 0]_vars

C27_Witness ==
    /\ Succeeded("subscription", session.last, hlast)
    /\ HasId(subscription) /\ subscription.id = "sub-1"
    /\ platSubs["sub-1"].exists /\ ~platSubs["sub-2"].exists
    /\ InFlight("subscription") = 0
    /\ ~loading["subscription"]


\* C28: the effect issues its status fetch only when the page is loaded, for a
\* subscription restored from storage; a step that creates a subscription
\* issues no fetch (its refresh comes with the timer).
C28_AutomaticFetchOnlyOnLoad ==
    [][EffectFetchIssued(tasks, tasks')
          => /\ session'.last.action = "Reload"
             /\ session'.restored]_vars


\* C29: after the page is loaded no record in storage is one that cannot be
\* parsed: such a record was removed and not loaded, the other record is in
\* state when it parses, and no error banner is up.
Loaded == session.last.action \in {"Mount", "Reload"}
C29_MalformedRecordsDropped ==
    Loaded
      => /\ \A k \in StorageKeys : storage[k] = NoItem \/ ~JSONparse(storage[k]).threw
         /\ wallet = IF storage["bbq-wallet"] = NoItem THEN JsNull
                     ELSE JSONparse(storage["bbq-wallet"]).value
         /\ subscription = IF storage["bbq-subscription"] = NoItem THEN JsNull
                           ELSE JSONparse(storage["bbq-subscription"]).value
         /\ error = JsNull


\* C30: the charge and revoke handlers answer with a 5xx status only after a
\* platform call that threw, and answer every request that names no
\* subscription (no subscriptionId, no body, a body that cannot be parsed) with
\* a 4xx status and an error field.
NamesNoSubscription(req) ==
    \/ JSONparse(req.body).threw
    \/ MissingOrEmpty(Field(JSONparse(req.body).value, "subscriptionId"))
C30_ServerErrorOnlyFromPlatform ==
    hlast.handler \in {"charge", "revoke"}
      => /\ hlast.resp.status >= 500 => PlatformThrew
         /\ NamesNoSubscription(hlast.req)
              => /\ hlast.resp.status \in 400..499
                 /\ "error" \in DOMAIN hlast.resp.body


\* C31: a charge request carries the recipient input of the moment Charge was
\* clicked when that input is not empty and carries no recipient when it is
\* empty; the handler passes the platform the recipient of the request, and
\* none when the request has none.
RecipientOf(req) == Field(JSONparse(req.body).value, "recipient")
C31_RecipientAsTyped ==
    [][/\ \A t \in BagToSet(tasks') :
            (t.kind = "charge" /\ Added(t, tasks, tasks'))
               => /\ session'.last.action = "ClickCharge"
                  /\ RecipientOf(t.req) =
                        IF recipientAddress = "" THEN Undefined ELSE recipientAddress
       /\ hlast'.handler = "charge"
            => \A i \in DOMAIN hlast'.calls :
                  /\ hlast'.calls[i].op = "charge"
                  /\ Field(hlast'.calls[i].opts, "recipient") = RecipientOf(hlast'.req)
                  /\ hlast'.req = session'.last.task.req]_vars

C31_Witness ==
    /\ hlast.handler = "charge" /\ Len(hlast.calls) = 1
    /\ Field(hlast.calls[1].opts, "recipient") = "0xR"
    /\ RecipientOf(session.last.task.req) = "0xR"
    /\ Ok(hlast.resp)


\* C32: with no request pending and no timer set all five busy flags are false,
\* and a busy flag is set only while a request of its kind is pending.
C32_NoFlagWithoutRequest ==
    /\ tasks = EmptyBag => loading = NoFlags
    /\ \A k \in DOMAIN loading : loading[k] => InFlight(k) > 0


\* C33: the error banner a failed charge or revoke has just set is left as it
\* is by a step of a scheduled status refresh (its timer firing, its fetch
\* answered).
RefreshStep(last) ==
    \/ last.action = "TimerFires"
    \/ last.action = "ResolveGetStatus" /\ last.task.origin \in Operations
C33_FailureBannerStays ==
    [][(/\ session.last.action \in {"ResolveCharge", "ResolveRevoke"}
        /\ OperationFailed(session.last, hlast)
        /\ RefreshStep(session'.last))
          => error' = error]_vars


\* C34: the wallet and its record change only when the page is loaded and when
\* a Create Wallet is answered, the subscription and its record only when the
\* page is loaded and when a Create Subscription is answered, the status only
\* when a status fetch is answered (and with the page); no step of a status
\* fetch, a charge or a revoke changes the wallet, the subscription or storage.
C34_WriteOwnership ==
    [][/\ (wallet' # wallet \/ storage'["bbq-wallet"] # storage["bbq-wallet"])
            => session'.last.action \in {"Reload", "ResolveCreateWallet"}
       /\ (subscription' # subscription
             \/ storage'["bbq-subscription"] # storage["bbq-subscription"])
            => session'.last.action \in {"Reload", "ResolveCreateSubscription"}
       /\ subscriptionStatus' # subscriptionStatus
            => session'.last.action \in {"Reload", "ResolveGetStatus"}
       /\ OperationOf(session'.last.action) \in {"status", "charge", "revoke"}
            => /\ wallet' = wallet
               /\ subscription' = subscription
               /\ storage' = storage]_vars

C34_Witness ==
    /\ ChargeSucceeded
    /\ wallet # JsNull /\ storage["bbq-wallet"] = JSONstringify(wallet)
    /\ HasId(subscription)
    /\ storage["bbq-subscription"] = JSONstringify(subscription)
    /\ subscriptionStatus # JsNull


\* C35: a wallet in state is what the wallet record in storage parses to, and
\* a subscription in state is what the subscription record parses to.
HoldsRecordOf(value, item) ==
    value # JsNull => (~JSONparse(item).threw /\ JSONparse(item).value = value)
C35_StateMatchesStorage ==
    /\ HoldsRecordOf(wallet, storage["bbq-wallet"])
    /\ HoldsRecordOf(subscription, storage["bbq-subscription"])

C35_Witness ==
    /\ Succeeded("subscription", session.last, hlast)
    /\ HasId(subscription) /\ subscription.recurringCharge = "29.99"
    /\ JSONparse(storage["bbq-subscription"]).value = subscription
    /\ wallet # JsNull /\ JSONparse(storage["bbq-wallet"]).value = wallet


\* C36: a wallet in state has a non-empty address and a subscription in state a
\* non-empty id, whatever storage held when the page was loaded, and every
\* pending subscribe call, status fetch, charge request and revoke request
\* carries a non-empty owner address or subscription id.
Named(v) == ~MissingOrEmpty(v)
CarriesIdentity(t) ==
    CASE t.kind = "subscription" -> Named(Field(t.opts, "subscriptionOwner"))
      [] t.kind = "status" -> Named(Field(t.opts, "id"))
      [] t.kind \in {"charge", "revoke"} ->
           Named(Field(JSONparse(t.req.body).value, "subscriptionId"))
      [] OTHER -> TRUE
C36_RestoredRecordsValid ==
    /\ wallet # JsNull => Named(Field(wallet, "address"))
    /\ subscription # JsNull => Named(Field(subscription, "id"))
    /\ \A t \in BagToSet(tasks) : CarriesIdentity(t)

=============================================================================
